---- MODULE Spec2Model ----
(***************************************************************************)
(* Model of the interview-analysis service: the FastAPI handler            *)
(* get_summary (src/api/main.py) and HRInterviewAnalyzer with its          *)
(* QNASummary output schema (src/core/analyzer.py).                        *)
(*                                                                         *)
(* Text is modelled as a sequence of tokens.  A model completion is a      *)
(* sequence of the tokens "{", "}", prose, and object members              *)
(* ("key": value); a prompt is the sequence of the template's segments.    *)
(***************************************************************************)
EXTENDS Naturals, Sequences, FiniteSets

\* Number of HTTP requests the server handles (concurrently or in turn).
NumRequests == 2

Requests == 1..NumRequests

----------------------------------------------------------------------------
(* QNASummary: the output schema *)

\* The required fields of QNASummary, in declaration order.
FieldOrder ==
    << "name", "overall_impression", "chance_of_getting_the_job",
       "most_relevant_position", "personal_capability",
       "psychological_capability", "technical_capability", "final_thoughts" >>

Fields == { FieldOrder[i] : i \in 1..Len(FieldOrder) }

\* A key the schema does not declare.
ExtraKey == "confidence"

----------------------------------------------------------------------------
(* Completion text *)

NoValue == [t |-> "none", s |-> <<>>]
StrValue(s) == [t |-> "str", s |-> s]
NumValue(s) == [t |-> "num", s |-> s]
NullValue == [t |-> "null", s |-> <<>>]

LBrace == [tok |-> "{", k |-> "", v |-> NoValue]
RBrace == [tok |-> "}", k |-> "", v |-> NoValue]
Prose == [tok |-> "prose", k |-> "", v |-> NoValue]
Member(k, v) == [tok |-> "member", k |-> k, v |-> v]

\* The text the stub backend writes for a field.
StubValue(l) == StrValue(<<"about", l>>)

\* The members "l": StubValue(l) for the labels of order, in that order.
Members(order) == [i \in 1..Len(order) |-> Member(order[i], StubValue(order[i]))]

Reverse(s) == [i \in 1..Len(s) |-> s[Len(s) + 1 - i]]

\* The completions the backend may return in one piece.
Completions ==
    { <<LBrace>> \o Members(FieldOrder) \o <<RBrace>>,
      <<Prose, LBrace>> \o Members(Reverse(FieldOrder)) \o <<RBrace, Prose>>,
      <<LBrace>> \o Members(SubSeq(FieldOrder, 1, 7)) \o <<RBrace>>,
      <<Prose>>,
      <<LBrace, Member("name", NumValue(<<"7">>))>>
          \o Members(SubSeq(FieldOrder, 2, 8))
          \o <<Member(ExtraKey, StrValue(<<"high">>)), RBrace>>,
      <<LBrace>> \o Members(SubSeq(FieldOrder, 1, 7))
          \o <<Member("final_thoughts", NullValue), RBrace>>,
      <<LBrace>> \o Members(FieldOrder) }

\* How the backend may close a completion it streamed member by member.
Shapes == {"object", "wrapped", "truncated"}

Wrap(shape, members) ==
    CASE shape = "object" -> <<LBrace>> \o members \o <<RBrace>>
      [] shape = "wrapped" -> <<Prose, LBrace>> \o members \o <<RBrace, Prose>>
      [] OTHER -> <<LBrace>> \o members

\* The exceptions the backend call may raise.
BackendErrors == {"ResourceExhausted", "ServiceUnavailable"}

----------------------------------------------------------------------------
(* PydanticOutputParser(pydantic_object=QNASummary) *)

Min(S) == CHOOSE x \in S : \A y \in S : x <= y
Max(S) == CHOOSE x \in S : \A y \in S : y <= x

\* re.search(r"\{.*\}", text.strip(), DOTALL) (a token is never white
\* space, so strip() changes nothing): the leftmost "{" that a "}" follows,
\* up to the last "}"; the empty string when there is no match.
RegexSearch(text) ==
    LET lbs == { i \in 1..Len(text) : text[i].tok = "{" }
        rbs == { j \in 1..Len(text) : text[j].tok = "}" }
    IN  IF \E i \in lbs : \E j \in rbs : i < j
        THEN SubSeq(text, Min(lbs), Max(rbs))
        ELSE <<>>

\* json.loads: the text is one object, "{" members "}"; a later member
\* for a key replaces an earlier one.
JsonValid(js) ==
    /\ Len(js) >= 2
    /\ js[1].tok = "{"
    /\ js[Len(js)].tok = "}"
    /\ \A i \in 2..(Len(js) - 1) : js[i].tok = "member"

\* A variant that reads the members by position, the i-th as the i-th
\* declared field.
JsonLoadsPositional(js) ==
    LET n == IF Len(js) - 2 < Len(FieldOrder) THEN Len(js) - 2 ELSE Len(FieldOrder)
    IN  [ k \in { FieldOrder[i] : i \in 1..n } |->
            js[1 + (CHOOSE i \in 1..n : FieldOrder[i] = k)].v ]

JsonLoads(js) ==
    LET keys == { js[i].k : i \in 2..(Len(js) - 1) }
    IN  [ k \in keys |->
            js[Max({ i \in 2..(Len(js) - 1) : js[i].k = k })].v ]

\* QNASummary.parse_obj: every declared field is required and is a str; a
\* number is coerced to its text, null is refused, undeclared keys are
\* ignored.
FieldValid(obj, l) == l \in DOMAIN obj /\ obj[l].t \in {"str", "num"}

ParseObjValid(obj) == \A l \in Fields : FieldValid(obj, l)

ParseObj(obj) == [ l \in Fields |-> obj[l].s ]

NoFields == [ l \in {} |-> <<>> ]

Returned(value) ==
    [kind |-> "return", value |-> value, exc |-> "", msg |-> <<>>]
Raised(exc, msg) ==
    [kind |-> "raise", value |-> NoFields, exc |-> exc, msg |-> msg]
NoOutcome == [kind |-> "none", value |-> NoFields, exc |-> "", msg |-> <<>>]

\* A variant that fills in the fields it finds and leaves the others out.
ParseLenient(text) ==
    LET js == RegexSearch(text)
    IN  IF JsonValid(js)
        THEN Returned([ l \in { f \in Fields : FieldValid(JsonLoads(js), f) } |->
                          JsonLoads(js)[l].s ])
        ELSE Raised("OutputParserException",
                    <<"Failed to parse QNASummary from completion">> \o text)

\* PydanticOutputParser.parse(text)
Parse(text) ==
    LET js == RegexSearch(text)
    IN  IF JsonValid(js) /\ ParseObjValid(JsonLoads(js))
        THEN Returned(ParseObj(JsonLoads(js)))
        ELSE Raised("OutputParserException",
                    <<"Failed to parse QNASummary from completion">> \o text)

\* PydanticOutputParser.get_format_instructions()
GetFormatInstructions ==
    <<"The output should be formatted as a JSON instance that conforms to the JSON schema below.">>
        \o FieldOrder

----------------------------------------------------------------------------
(* Requests *)

QnaPair(q, a) == [question |-> q, answer |-> a]

QA1 == QnaPair("Tell me about yourself",
               "I am a backend engineer with 5 years experience.")
QA2 == QnaPair("Why this company?", "I like the product.")

HRInterviewInput(name, title, company, qna) ==
    [candidate_name |-> name, job_title |-> title, company_name |-> company,
     interview_qna |-> qna]

\* The request bodies a client may post.
Payloads ==
    { HRInterviewInput("Jane Doe", "Backend Engineer", "Acme", <<QA1>>),
      HRInterviewInput("John Roe", "Backend Engineer", "Acme", <<>>),
      HRInterviewInput("John Roe", "Data Engineer", "Acme", <<QA1, QA2, QA1>>) }

NoInput == HRInterviewInput("", "", "", <<>>)

----------------------------------------------------------------------------
(* Prompt construction *)

Lit(text) == [lit |-> text, var |-> ""]
Var(name) == [lit |-> "", var |-> name]

\* self.hr_template
HrTemplate ==
    << Lit("Here is a transcript of an HR interview for the "),
       Var("job_title"),
       Lit(" position at "),
       Var("company_name"),
       Lit(". The candidate is "),
       Var("candidate_name"),
       Lit(". Please analyze the interview and provide a bulleted summary with the following sections:"),
       Var("format_instructions"),
       Lit("---"),
       Var("interview_qna"),
       Lit("---") >>

\* str() of one {"question": ..., "answer": ...} dict
PyStrDict(d) == <<"{'question': ", d.question, ", 'answer': ", d.answer, "}">>

RECURSIVE PyJoin(_)
PyJoin(l) ==
    IF Len(l) = 0 THEN <<>>
    ELSE IF Len(l) = 1 THEN PyStrDict(l[1])
    ELSE PyStrDict(l[1]) \o <<", ">> \o PyJoin(Tail(l))

\* str() of the list of dicts, as the f-string formatter renders it
PyStrList(l) == <<"[">> \o PyJoin(l) \o <<"]">>

\* The list comprehension of get_summary
InterviewQnaList(input) ==
    [ i \in 1..Len(input.interview_qna) |->
        QnaPair(input.interview_qna[i].question, input.interview_qna[i].answer) ]

\* The keyword arguments analyze_interview passes to the template
FormatKwargs(input, qna_list) ==
    [ v \in {"job_title", "company_name", "candidate_name", "interview_qna"} |->
        CASE v = "job_title" -> <<input.job_title>>
          [] v = "company_name" -> <<input.company_name>>
          [] v = "candidate_name" -> <<input.candidate_name>>
          [] OTHER -> PyStrList(qna_list) ]

\* A variant that builds the format instructions from the call's arguments.
PromptTemplateFormatPerCall(template, partial, kwargs) ==
    [ i \in 1..Len(template) |->
        IF template[i].var = "" THEN <<template[i].lit>>
        ELSE IF template[i].var \in DOMAIN kwargs THEN kwargs[template[i].var]
        ELSE partial[template[i].var] \o kwargs["candidate_name"] ]

\* PromptTemplate.format: each placeholder is replaced by the text of its
\* variable, a partial variable or a keyword argument.
PromptTemplateFormat(template, partial, kwargs) ==
    [ i \in 1..Len(template) |->
        IF template[i].var = "" THEN <<template[i].lit>>
        ELSE IF template[i].var \in DOMAIN kwargs THEN kwargs[template[i].var]
        ELSE partial[template[i].var] ]

\* Where a variable's text sits in a rendered prompt.
SegmentOf(name) == CHOOSE i \in 1..Len(HrTemplate) : HrTemplate[i].var = name

NoPrompt == <<>>

----------------------------------------------------------------------------
(* State *)

VARIABLES
    analyzer,     \* the module-level HRInterviewAnalyzer instance
    req,          \* per request: the handler's frame
    backend,      \* per request: what the model backend saw and did
    parse_calls   \* per request: calls of parser.parse

vars == <<analyzer, req, backend, parse_calls>>

\* HRInterviewAnalyzer.__init__ with its default arguments
HRInterviewAnalyzerInit ==
    [ llm |-> [model_name |-> "code-bison", max_output_tokens |-> 1000,
               temperature |-> "0.3"],
      hr_template |-> HrTemplate,
      partial_variables |->
          [ v \in {"format_instructions"} |-> GetFormatInstructions ] ]

NoResponse == [status |-> 0, body |-> NoFields, detail |-> <<>>]

IdleFrame ==
    [ pc |-> "idle", input |-> NoInput, interview_qna_list |-> <<>>,
      input_data |-> NoPrompt, raw |-> <<>>, result |-> NoOutcome,
      response |-> NoResponse ]

IdleBackend ==
    [ calls |-> 0, prompt |-> NoPrompt, status |-> "none", stream |-> <<>>,
      text |-> <<>>, error |-> "" ]

Init ==
    /\ analyzer = HRInterviewAnalyzerInit
    /\ req = [r \in Requests |-> IdleFrame]
    /\ backend = [r \in Requests |-> IdleBackend]
    /\ parse_calls = [r \in Requests |-> 0]

----------------------------------------------------------------------------
(* get_summary and analyze_interview, one request per slot *)

Escaped == [status |-> 0, body |-> NoFields, detail |-> <<"unhandled">>]

\* A variant whose except clause names the parser's exception only.
RespondParserOnly(outcome) ==
    IF outcome.kind = "return"
    THEN [status |-> 200, body |-> outcome.value, detail |-> <<>>]
    ELSE IF outcome.exc = "OutputParserException"
    THEN [status |-> 500, body |-> NoFields, detail |-> outcome.msg]
    ELSE Escaped

\* The end of get_summary: result.dict() is returned, and any exception
\* becomes HTTPException(status_code=500, detail=str(e)).
Respond(outcome) ==
    IF outcome.kind = "return"
    THEN [status |-> 200, body |-> outcome.value, detail |-> <<>>]
    ELSE [status |-> 500, body |-> NoFields, detail |-> outcome.msg]

\* The request body arrives, validated as HRInterviewInput, and the handler
\* builds interview_qna_list.
Receive(r, p) ==
    /\ req[r].pc = "idle"
    /\ req' = [req EXCEPT ![r] =
                 [@ EXCEPT !.pc = "analyze", !.input = p,
                           !.interview_qna_list = InterviewQnaList(p)]]
    /\ UNCHANGED <<analyzer, backend, parse_calls>>

\* A variant that refuses an empty transcript before any backend call.
FormatPromptRefuseEmpty(r) ==
    /\ req[r].pc = "analyze"
    /\ IF req[r].interview_qna_list = <<>>
       THEN req' = [req EXCEPT ![r] =
                      [@ EXCEPT !.pc = "done",
                                !.result = Raised("ValueError", <<"empty transcript">>),
                                !.response = Respond(Raised("ValueError", <<"empty transcript">>))]]
       ELSE req' = [req EXCEPT ![r] =
                      [@ EXCEPT !.pc = "invoke",
                                !.input_data =
                                    PromptTemplateFormat(analyzer.hr_template,
                                        analyzer.partial_variables,
                                        FormatKwargs(req[r].input, req[r].interview_qna_list))]]
    /\ UNCHANGED <<analyzer, backend, parse_calls>>

\* A variant that keeps the call's transcript on the instance, in place of
\* the format instructions.
FormatPromptInPlace(r) ==
    /\ req[r].pc = "analyze"
    /\ req' = [req EXCEPT ![r] =
                 [@ EXCEPT !.pc = "invoke",
                           !.input_data =
                               PromptTemplateFormat(analyzer.hr_template,
                                   analyzer.partial_variables,
                                   FormatKwargs(req[r].input, req[r].interview_qna_list))]]
    /\ analyzer' = [analyzer EXCEPT !.partial_variables =
                      [ v \in {"format_instructions"} |->
                          PyStrList(req[r].interview_qna_list) ]]
    /\ UNCHANGED <<backend, parse_calls>>

\* analyze_interview, first statement: input_data = self.prompt_template.format(...)
FormatPrompt(r) ==
    /\ req[r].pc = "analyze"
    /\ req' = [req EXCEPT ![r] =
                 [@ EXCEPT !.pc = "invoke",
                           !.input_data =
                               PromptTemplateFormat(analyzer.hr_template,
                                   analyzer.partial_variables,
                                   FormatKwargs(req[r].input, req[r].interview_qna_list))]]
    /\ UNCHANGED <<analyzer, backend, parse_calls>>

\* A variant that reads the prompt from a place all calls share: the
\* backend gets the prompt of whichever call formatted one.
LlmCallShared(r) ==
    /\ req[r].pc = "invoke"
    /\ \E q \in Requests :
         /\ req[q].input_data # NoPrompt
         /\ backend' = [backend EXCEPT ![r] =
                          [@ EXCEPT !.calls = @ + 1, !.prompt = req[q].input_data,
                                    !.status = "pending"]]
    /\ req' = [req EXCEPT ![r] = [@ EXCEPT !.pc = "waiting"]]
    /\ UNCHANGED <<analyzer, parse_calls>>

\* analyze_interview, second statement: self.llm(input_data) is called.
LlmCall(r) ==
    /\ req[r].pc = "invoke"
    /\ backend' = [backend EXCEPT ![r] =
                     [@ EXCEPT !.calls = @ + 1, !.prompt = req[r].input_data,
                               !.status = "pending"]]
    /\ req' = [req EXCEPT ![r] = [@ EXCEPT !.pc = "waiting"]]
    /\ UNCHANGED <<analyzer, parse_calls>>

\* The backend writes one more member of the completion it is generating.
LlmEmit(r, l) ==
    /\ req[r].pc = "waiting"
    /\ backend[r].status = "pending"
    /\ \A i \in 1..Len(backend[r].stream) : backend[r].stream[i].k # l
    /\ backend' = [backend EXCEPT ![r] =
                     [@ EXCEPT !.stream = Append(@, Member(l, StubValue(l)))]]
    /\ UNCHANGED <<analyzer, req, parse_calls>>

\* self.llm(input_data) returns text.
LlmReturn(r, text) ==
    /\ req[r].pc = "waiting"
    /\ backend[r].status = "pending"
    /\ backend' = [backend EXCEPT ![r] =
                     [@ EXCEPT !.status = "returned", !.text = text]]
    /\ req' = [req EXCEPT ![r] = [@ EXCEPT !.pc = "parse", !.raw = text]]
    /\ UNCHANGED <<analyzer, parse_calls>>

\* A variant that swallows the backend's exception and parses empty text.
LlmRaiseSwallowed(r, e) ==
    /\ req[r].pc = "waiting"
    /\ backend[r].status = "pending"
    /\ backend' = [backend EXCEPT ![r] =
                     [@ EXCEPT !.status = "failed", !.error = e]]
    /\ req' = [req EXCEPT ![r] = [@ EXCEPT !.pc = "parse", !.raw = <<>>]]
    /\ UNCHANGED <<analyzer, parse_calls>>

\* self.llm(input_data) raises e: it leaves analyze_interview and is caught
\* by get_summary's except clause.
LlmRaise(r, e) ==
    /\ req[r].pc = "waiting"
    /\ backend[r].status = "pending"
    /\ backend' = [backend EXCEPT ![r] =
                     [@ EXCEPT !.status = "failed", !.error = e]]
    /\ req' = [req EXCEPT ![r] =
                 [@ EXCEPT !.pc = "done", !.result = Raised(e, <<e>>),
                           !.response = Respond(Raised(e, <<e>>))]]
    /\ UNCHANGED <<analyzer, parse_calls>>

\* A variant that calls the backend again when the text does not parse.
ParseReturnRetry(r) ==
    /\ req[r].pc = "parse"
    /\ parse_calls' = [parse_calls EXCEPT ![r] = @ + 1]
    /\ IF Parse(req[r].raw).kind = "return"
       THEN req' = [req EXCEPT ![r] =
                      [@ EXCEPT !.pc = "done", !.result = Parse(req[r].raw),
                                !.response = Respond(Parse(req[r].raw))]]
       ELSE req' = [req EXCEPT ![r] = [@ EXCEPT !.pc = "invoke"]]
    /\ UNCHANGED <<analyzer, backend>>

\* analyze_interview returns self.parser.parse(text), or the parser's
\* exception leaves it; get_summary answers.
ParseReturn(r) ==
    /\ req[r].pc = "parse"
    /\ parse_calls' = [parse_calls EXCEPT ![r] = @ + 1]
    /\ req' = [req EXCEPT ![r] =
                 [@ EXCEPT !.pc = "done", !.result = Parse(req[r].raw),
                           !.response = Respond(Parse(req[r].raw))]]
    /\ UNCHANGED <<analyzer, backend>>

Next ==
    \E r \in Requests :
        \/ \E p \in Payloads : Receive(r, p)
        \/ FormatPrompt(r)
        \/ LlmCall(r)
        \/ \E text \in Completions : LlmReturn(r, text)
        \/ \E e \in BackendErrors : LlmRaise(r, e)
        \/ ParseReturn(r)

Spec == Init /\ [][Next]_vars

\* One request, the end-to-end scenario's, answered by a backend that
\* writes its completion member by member in an order of its choosing.
Scenario == HRInterviewInput("Jane Doe", "Backend Engineer", "Acme", <<QA1>>)

NextParse ==
    \/ Receive(1, Scenario)
    \/ FormatPrompt(1)
    \/ LlmCall(1)
    \/ \E l \in Fields : LlmEmit(1, l)
    \/ \E shape \in Shapes : LlmReturn(1, Wrap(shape, backend[1].stream))
    \/ ParseReturn(1)

SpecParse == Init /\ [][NextParse]_vars

----------------------------------------------------------------------------
(* Properties *)

Called(r) == req[r].pc \in {"waiting", "parse", "done"}
Formatted(r) == req[r].pc \in {"invoke", "waiting", "parse", "done"}
Done(r) == req[r].pc = "done"

\* The prompt of a request, from the analyzer as constructed.
PromptFor(input) ==
    PromptTemplateFormat(HrTemplate,
        [ v \in {"format_instructions"} |-> GetFormatInstructions ],
        FormatKwargs(input, InterviewQnaList(input)))

\* C1: every analyze_interview invocation calls the model backend exactly
\* once: no call has been made before the call statement is reached, and
\* from then on, through a backend failure or a parse failure to the end of
\* the invocation, the number of calls made for it stays one.
C1_ExactlyOneBackendCall ==
    \A r \in Requests :
        /\ ~Called(r) => backend[r].calls = 0
        /\ Called(r) => backend[r].calls = 1

C1_Witness ==
    \E r \in Requests :
        /\ Done(r)
        /\ backend[r].status = "returned"
        /\ req[r].result.exc = "OutputParserException"
        /\ backend[r].calls = 1

\* The declared fields no member of the text is labelled with.
MissingFields(text) ==
    { l \in Fields :
        \A n \in 1..Len(text) : ~(text[n].tok = "member" /\ text[n].k = l) }

\* C2: when the completion lacks one or more of the eight required fields,
\* parse raises OutputParserException and the request ends with no
\* QNASummary, whole or partial: analyze_interview returns nothing and the
\* handler's answer carries no body.
C2_MissingFieldFails ==
    \A r \in Requests :
        (Done(r) /\ backend[r].status = "returned"
                 /\ MissingFields(req[r].raw) # {})
        => /\ req[r].result.kind = "raise"
           /\ req[r].result.exc = "OutputParserException"
           /\ req[r].result.value = NoFields
           /\ req[r].response.status = 500
           /\ req[r].response.body = NoFields

C2_Witness ==
    \E r \in Requests :
        /\ Done(r)
        /\ MissingFields(req[r].raw) = {"technical_capability"}
        /\ req[r].raw[1].tok = "{"
        /\ req[r].raw[Len(req[r].raw)].tok = "}"

MembersOf(text, l) ==
    { n \in 1..Len(text) : text[n].tok = "member" /\ text[n].k = l }

\* A completion that is one JSON object, prose before and after it allowed,
\* in which every required field is given once, as a string.
WellFormedResponse(text) ==
    /\ \E i, j \in 1..Len(text) :
         /\ i < j
         /\ text[i].tok = "{"
         /\ text[j].tok = "}"
         /\ \A n \in 1..Len(text) :
              /\ n < i \/ n > j => text[n].tok = "prose"
              /\ (i < n /\ n < j) => text[n].tok = "member"
    /\ \A l \in Fields :
         /\ Cardinality(MembersOf(text, l)) = 1
         /\ \A n \in MembersOf(text, l) : text[n].v.t = "str"

ContentFor(text, l) == text[CHOOSE n \in MembersOf(text, l) : TRUE].v.s

\* C3: for a well-formed completion holding all eight fields, in whatever
\* order, parse succeeds and each field of the QNASummary is the content
\* the completion gives under that field's label.
C3_AnyOrderParses ==
    \A r \in Requests :
        (Done(r) /\ backend[r].status = "returned"
                 /\ WellFormedResponse(req[r].raw))
        => /\ req[r].result.kind = "return"
           /\ DOMAIN req[r].result.value = Fields
           /\ \A l \in Fields :
                req[r].result.value[l] = ContentFor(req[r].raw, l)
           /\ req[r].response.status = 200
           /\ req[r].response.body = req[r].result.value

C3_Witness ==
    \E r \in Requests :
        /\ Done(r)
        /\ WellFormedResponse(req[r].raw)
        /\ req[r].raw[1].tok = "prose"
        /\ req[r].raw[3].k = "final_thoughts"
        /\ req[r].raw[4].k = "technical_capability"
        /\ req[r].raw[10].k = "overall_impression"
        /\ req[r].result.kind = "return"

\* C4: a failure of the backend call leaves analyze_interview as the
\* backend's exception, with parse never called; a failure of parse leaves
\* it as OutputParserException, which is none of the backend's exceptions.
C4_FailureStages ==
    /\ "OutputParserException" \notin BackendErrors
    /\ \A r \in Requests :
         /\ backend[r].status = "failed"
            => /\ Done(r)
               /\ req[r].result.kind = "raise"
               /\ req[r].result.exc = backend[r].error
               /\ req[r].result.exc \in BackendErrors
               /\ parse_calls[r] = 0
         /\ (Done(r) /\ backend[r].status = "returned"
                     /\ req[r].result.kind = "raise")
            => /\ req[r].result.exc = "OutputParserException"
               /\ parse_calls[r] = 1

C4_Witness ==
    \E r, q \in Requests :
        /\ Done(r) /\ Done(q)
        /\ backend[r].status = "failed"
        /\ req[r].result.exc = "ResourceExhausted"
        /\ backend[q].status = "returned"
        /\ req[q].result.exc = "OutputParserException"

IndexText(i) == <<"1.", "2.", "3.", "4.">>[i]

RECURSIVE NumberedUnits(_, _)
NumberedUnits(qna, i) ==
    IF i > Len(qna) THEN <<>>
    ELSE <<IndexText(i), qna[i].question, qna[i].answer>>
            \o NumberedUnits(qna, i + 1)

\* The unit numbers, questions and answers of a transcript block, in the
\* order they appear in it.
UnitContent(block, qna) ==
    LET content == { IndexText(i) : i \in 1..Len(qna) }
                     \cup { qna[i].question : i \in 1..Len(qna) }
                     \cup { qna[i].answer : i \in 1..Len(qna) }
        IsContent(t) == t \in content
    IN  SelectSeq(block, IsContent)

\* C5: the transcript block of the prompt holds, for the i-th pair of the
\* request and in the request's order, the unit number i, then the pair's
\* question, then its answer, and nothing for any other pair.
C5_NumberedTranscript ==
    \A r \in Requests :
        Formatted(r)
        => UnitContent(req[r].input_data[SegmentOf("interview_qna")],
                       req[r].input.interview_qna)
             = NumberedUnits(req[r].input.interview_qna, 1)

\* A prompt in which every literal of the template stands and every
\* placeholder has been replaced by text.
WellFormedPrompt(prompt) ==
    /\ Len(prompt) = Len(HrTemplate)
    /\ \A i \in 1..Len(HrTemplate) :
         /\ HrTemplate[i].var = "" => prompt[i] = <<HrTemplate[i].lit>>
         /\ HrTemplate[i].var # "" => Len(prompt[i]) >= 1

\* C6: with an empty interview_qna the prompt is still built, well formed,
\* the backend is called once with it, and the request's outcome is what
\* came of that call.
C6_EmptyQnaStillInvokes ==
    \A r \in Requests :
        (req[r].pc \notin {"idle", "analyze"} /\ req[r].input.interview_qna = <<>>)
        => /\ WellFormedPrompt(req[r].input_data)
           /\ req[r].input_data[SegmentOf("interview_qna")] = <<"[", "]">>
           /\ Called(r) => /\ backend[r].calls = 1
                           /\ backend[r].prompt = req[r].input_data
           /\ Done(r) => backend[r].status \in {"returned", "failed"}

C6_Witness ==
    \E r \in Requests :
        /\ Done(r)
        /\ req[r].input.interview_qna = <<>>
        /\ backend[r].calls = 1
        /\ req[r].response.status = 200

\* C7: whatever analyze_interview calls have run or are running, the
\* analyzer holds the model name, token limit, temperature, template and
\* format instructions it was constructed with.
C7_AnalyzerNeverMutated == analyzer = HRInterviewAnalyzerInit

C7_Witness ==
    \E r, q \in Requests :
        /\ Done(r) /\ Done(q)
        /\ req[r].response.status = 200
        /\ backend[q].status = "returned"
        /\ req[q].response.status = 500

\* C8: under every interleaving, a call's prompt is built from its own
\* request, the backend is called with that prompt, the text parsed is the
\* text the backend returned for it, and the call's result or error comes
\* of that text or of that call's failure.
C8_CallsIsolated ==
    \A r \in Requests :
        /\ Formatted(r) => req[r].input_data = PromptFor(req[r].input)
        /\ Called(r) => backend[r].prompt = PromptFor(req[r].input)
        /\ (req[r].pc \in {"parse", "done"} /\ backend[r].status = "returned")
           => req[r].raw = backend[r].text
        /\ Done(r)
           => req[r].result =
                IF backend[r].status = "failed"
                THEN Raised(backend[r].error, <<backend[r].error>>)
                ELSE Parse(backend[r].text)

C8_Witness ==
    \E r, q \in Requests :
        /\ req[r].pc = "parse"
        /\ req[q].pc = "waiting"
        /\ req[r].input # req[q].input
        /\ backend[r].prompt # backend[q].prompt

\* C9: the format instructions held by the analyzer are those computed at
\* construction, and the prompt of every call embeds exactly that block,
\* whatever the request and whatever calls came before.
C9_FormatInstructionsStable ==
    /\ analyzer.partial_variables["format_instructions"] = GetFormatInstructions
    /\ \A r \in Requests :
         Formatted(r)
         => req[r].input_data[SegmentOf("format_instructions")]
              = GetFormatInstructions

C9_Witness ==
    \E r, q \in Requests :
        /\ Done(r)
        /\ req[q].pc = "invoke"
        /\ req[r].input.candidate_name # req[q].input.candidate_name
        /\ req[r].input_data[SegmentOf("format_instructions")]
             = req[q].input_data[SegmentOf("format_instructions")]

Succeeded(resp) ==
    resp.status = 200 /\ DOMAIN resp.body = Fields /\ resp.detail = <<>>
Failed500(resp) ==
    resp.status = 500 /\ resp.body = NoFields /\ resp.detail # <<>>

\* C10: a request that has ended has exactly one outcome, the whole result
\* as a dictionary or a 500 with the error's text; a backend or parse
\* failure always ends as the 500; no answer exists before the end; and the
\* outcome is that of the request's own backend call, whatever became of
\* the other requests.
C10_OneOutcomePerRequest ==
    \A r \in Requests :
        /\ ~Done(r) => req[r].response = NoResponse
        /\ Done(r)
           => /\ Succeeded(req[r].response) \/ Failed500(req[r].response)
              /\ ~(Succeeded(req[r].response) /\ Failed500(req[r].response))
              /\ backend[r].status = "failed"
                 => /\ Failed500(req[r].response)
                    /\ req[r].response.detail = <<backend[r].error>>
              /\ (backend[r].status = "returned"
                    /\ Parse(backend[r].text).kind = "raise")
                 => /\ Failed500(req[r].response)
                    /\ req[r].response.detail = Parse(backend[r].text).msg
              /\ (backend[r].status = "returned"
                    /\ Parse(backend[r].text).kind = "return")
                 => /\ Succeeded(req[r].response)
                    /\ req[r].response.body = Parse(backend[r].text).value

C10_Witness ==
    \E r, q \in Requests :
        /\ Done(r) /\ Done(q)
        /\ backend[r].status = "failed"
        /\ Failed500(req[r].response)
        /\ Succeeded(req[q].response)

====
